---- MODULE Spec2Model ----
(***************************************************************************)
(* remigrate: create-if-missing reconciliation of a declared RethinkDB     *)
(* schema (database, tables, simple secondary indexes) against a live      *)
(* cluster, plus the confirmed whole-database drop path (-dbdrop).         *)
(*                                                                         *)
(* One process of the tool is one value of run[p]; live[c] is the schema   *)
(* of cluster c as the RethinkDB server holds it.  An action is at most    *)
(* one backend call (or one read of standard input) of remigrate.go with   *)
(* the code around it, up to the next call or to the end of the process.   *)
(***************************************************************************)
EXTENDS Integers, Sequences, FiniteSets, TLC

(* ------------------------------ bounds --------------------------------- *)

\* Largest number of declared entries (tables plus secondary indexes) of a config.
MaxDeclared == 3

\* Largest count the response to one creation reports.
MaxReported == 2

(* --------------------------- program constants ------------------------- *)

create == "create"

ignore == "ignore"

\* confirmDrop: for i := 3; i > 0; i--
ConfirmTries == 3

(* ------------------------------ universes ------------------------------ *)

Procs == {1, 2}

Clusters == {1, 2}

\* cfg.DBName of the config under reconciliation.
DBName == "machines"

\* RethinkDB's stock database, present on every cluster of the model.
OtherDB == "test"

TableNames == {"robots", "parts"}

IndexNames == {"version", "model"}

\* Values of Table.PrimaryKey in a config: "" is an omitted primary_key.
DeclaredKeys == {"", "serial_num"}

\* The primary key RethinkDB gives a table created without the option.
BackendDefaultKey == "id"

\* live pk of a table that does not exist
Absent == "<absent>"

(* ------------------------------- Config -------------------------------- *)

\* type Table struct { Name; PrimaryKey; SimpleIndexes }
Table(name, key, idxs) ==
  [Name |-> name, PrimaryKey |-> key, SimpleIndexes |-> idxs]

IndexLists(n) == UNION {[1..k -> IndexNames] : k \in 0..n}

\* Table entries that declare at most n objects (the table and its indexes).
TablesOfSize(n) ==
  IF n < 1 THEN {}
  ELSE {Table(t, k, s) : t \in TableNames, k \in DeclaredKeys, s \in IndexLists(n - 1)}

RECURSIVE DBTablesOfSize(_)
\* Values of Config.DBTables that declare at most n objects.
DBTablesOfSize(n) ==
  {<<>>} \cup
  UNION {{<<t>> \o rest : rest \in DBTablesOfSize(n - 1 - Len(t.SimpleIndexes))} :
           t \in TablesOfSize(n)}

Configs == DBTablesOfSize(MaxDeclared)

(* ----------------------------- live schema ----------------------------- *)

\* The schema of one cluster: database names, and for the tables of DBName
\* their primary key (Absent when there is no such table) and index names.
LiveStates ==
  {[dbs |-> {OtherDB}, pk |-> [t \in TableNames |-> Absent],
    idx |-> [t \in TableNames |-> {}]]}
  \cup
  UNION {{[dbs |-> {OtherDB, DBName}, pk |-> k, idx |-> x] :
            x \in {y \in [TableNames -> SUBSET IndexNames] :
                     \A t \in TableNames : k[t] = Absent => y[t] = {}}} :
           k \in [TableNames -> {Absent, BackendDefaultKey}]}

VARIABLES live, run

vars == <<live, run>>

\* r.DBList()
DBList(c) == live[c].dbs

\* r.TableList() on the database selected by session.Use(cfg.DBName)
TableList(c) == {t \in TableNames : live[c].pk[t] # Absent}

\* r.Table(tblName).IndexList()
IndexList(c, tblName) == live[c].idx[tblName]

\* The server accepts DBCreate only for a name that is not taken.
DBCreateAccepted(c) == DBName \notin live[c].dbs

\* Mutant: the server accepts TableCreate for a name that is taken.
TableCreateAccepted_taken(c, tblName) == DBName \in live[c].dbs

\* The server accepts TableCreate only inside an existing database and for a new name.
TableCreateAccepted(c, tblName) ==
  DBName \in live[c].dbs /\ live[c].pk[tblName] = Absent

\* The server accepts IndexCreate only on an existing table and for a new index name.
IndexCreateAccepted(c, tblName, index) ==
  live[c].pk[tblName] # Absent /\ index \notin live[c].idx[tblName]

\* Queries on the selected database need the database.
TableQueryAccepted(c) == DBName \in live[c].dbs

IndexQueryAccepted(c, tblName) == live[c].pk[tblName] # Absent

DBCreated(l) == [l EXCEPT !.dbs = @ \cup {DBName}]

TableCreated(l, tblName, key) ==
  [l EXCEPT !.pk[tblName] = IF key = "" THEN BackendDefaultKey ELSE key]

IndexCreated(l, tblName, index) == [l EXCEPT !.idx[tblName] = @ \cup {index}]

\* DBDrop removes the database with all its tables and their indexes.
DBDropped(l) ==
  [dbs |-> l.dbs \ {DBName}, pk |-> [t \in TableNames |-> Absent],
   idx |-> [t \in TableNames |-> {}]]

(* ----------------------------- process state --------------------------- *)

\* One entry of the record of backend calls a process has issued.
Call(op, tbl, idx, key, ok) == [op |-> op, tbl |-> tbl, idx |-> idx, key |-> key, ok |-> ok]

\* One line of output: a status line, the summary block or a drop-path message.
Line(kind, name, action, on, counts) ==
  [kind |-> kind, name |-> name, action |-> action, on |-> on, counts |-> counts]

\* A process right after flag.Parse, readInConfig and newRethinkSession succeeded.
NewRun(tables, dropFlag, c, l, before) ==
  [cfg |-> tables, drop |-> dropFlag, cluster |-> c,
   pc |-> "dbExists", i |-> 1, j |-> 1, lookup |-> {}, tries |-> ConfirmTries,
   dbsCreated |-> 0, tblsCreated |-> 0, indCreated |-> 0,
   closed |-> FALSE, exitCode |-> 0,
   out |-> <<>>, calls |-> <<>>, reported |-> <<>>, answers |-> <<>>, stdinErr |-> FALSE,
   live0 |-> l, prev |-> before]

\* There was no earlier process.
NoPrev == [ended |-> "none", created |-> FALSE]

\* A process that is never started.
NoRun(c, l) == [NewRun(<<>>, FALSE, c, l, NoPrev) EXCEPT !.pc = "off"]

(* ------------------------------ process exit --------------------------- *)

\* Mutant: the error ends the process with exit 0.
Fatalln_exit0(r) == [r EXCEPT !.pc = "exited", !.exitCode = 0]

\* Mutant: the error is logged with log.Println and the process carries on.
Fatalln_logOnly(r) == r

\* log.Fatalln / log.Fatalf: the message, then os.Exit(1).  os.Exit does not
\* run deferred calls, so the deferred session.Close() of main is skipped.
Fatalln(r) == [r EXCEPT !.pc = "exited", !.exitCode = 1]

\* Mutant: the os.Exit(0) of main's switch is missing, main goes on to the tables.
Exit0_fallthrough(r) == [r EXCEPT !.pc = "tableUp"]

\* os.Exit(0) inside main's switch: deferred calls are skipped here too.
Exit0(r) == [r EXCEPT !.pc = "exited", !.exitCode = 0]

\* main returns: the deferred session.Close() runs, the process exits 0.
Return(r) == [r EXCEPT !.pc = "exited", !.exitCode = 0, !.closed = TRUE]

\* Mutant: a creation counts for one, whatever the response reports.
addCreated_one(counter, n) == counter + 1

\* dbsCreated += resp.DBsCreated and tblsCreated += resp.TablesCreated
addCreated(counter, n) == counter + n

\* The count a successful creation's response carried, kept for the record.
Reported(r, op, n) == [r EXCEPT !.reported = Append(@, [op |-> op, n |-> n])]

Logged(r, call) == [r EXCEPT !.calls = Append(@, call)]

Printed(r, line) == [r EXCEPT !.out = Append(@, line)]

\* The i-th entry of cfg.DBTables.
Tbl(r) == r.cfg[r.i]

(* --------------------------- database level ---------------------------- *)

\* Mutant: dbExists answers true whatever the listing holds.
dbExistsIn_always(dbName, dbs) == TRUE

\* dbExists: is dbName among the listed names
dbExistsIn(dbName, dbs) == dbName \in dbs

\* Mutant: the drop case is taken whenever the database exists.
mainSwitch_dropUnflagged(ok, dropFlag) == IF ~ok THEN "dbCreate" ELSE "confirmDrop"

\* The switch of main on (ok, *drop), cases in source order.
mainSwitch(ok, dropFlag) ==
  IF ~ok /\ dropFlag THEN "cannotDrop"
  ELSE IF ~ok THEN "dbCreate"
  ELSE IF ok /\ dropFlag THEN "confirmDrop"
  ELSE "exists"

dbExists(p) ==
  /\ run[p].pc = "dbExists"
  /\ \E fault \in BOOLEAN :
       LET r  == run[p]
           r1 == Logged(r, Call("DBList", "", "", "", ~fault))
           ok == dbExistsIn(DBName, DBList(r.cluster))
           to == mainSwitch(ok, r.drop)
       IN run' = [run EXCEPT ![p] =
                    IF fault \/ to = "cannotDrop" THEN Fatalln(r1)
                    ELSE IF to = "exists"
                      THEN Printed([r1 EXCEPT !.pc = "tableUp"],
                                   Line("database", DBName, ignore, "", <<>>))
                      ELSE [r1 EXCEPT !.pc = to]]
  /\ UNCHANGED live

dbCreate(p, counts) ==
  /\ run[p].pc = "dbCreate"
  /\ \E fault \in BOOLEAN, n \in counts :
       LET r  == run[p]
           c  == r.cluster
           ok == ~fault /\ DBCreateAccepted(c)
           r1 == Logged(r, Call("DBCreate", "", "", "", ok))
       IN IF ok
            THEN /\ live' = [live EXCEPT ![c] = DBCreated(@)]
                 /\ run' = [run EXCEPT ![p] =
                      Printed([Reported(r1, "DBCreate", n) EXCEPT
                                 !.dbsCreated = addCreated(@, n), !.pc = "tableUp"],
                              Line("database", DBName, create, "", <<>>))]
            ELSE /\ run' = [run EXCEPT ![p] = Fatalln(r1)]
                 /\ UNCHANGED live

(* ------------------------------ drop path ------------------------------ *)

Spaces == {" ", "\n", "\t"}

RECURSIVE TrimLeft(_)
TrimLeft(s) == IF s # <<>> /\ Head(s) \in Spaces THEN TrimLeft(Tail(s)) ELSE s

RECURSIVE TrimRight(_)
TrimRight(s) ==
  IF s # <<>> /\ s[Len(s)] \in Spaces THEN TrimRight(SubSeq(s, 1, Len(s) - 1)) ELSE s

\* strings.TrimSpace on a line given as its characters
TrimSpace(s) == TrimRight(TrimLeft(s))

LowerOf(ch) ==
  CASE ch = "Y" -> "y" [] ch = "E" -> "e" [] ch = "S" -> "s"
    [] ch = "N" -> "n" [] ch = "O" -> "o" [] ch = "Q" -> "q" [] OTHER -> ch

\* strings.ToLower
ToLower(s) == [k \in 1..Len(s) |-> LowerOf(s[k])]

\* Lines standard input may deliver to bufnr.ReadString('\n').
StdinLines ==
  { <<"y", "\n">>, <<" ", "Y", "E", "S", "\n">>, <<"n", "\n">>,
    <<"N", "o", " ", "\n">>, <<"q", "\n">> }

\* Mutant: the response is trimmed but not lower-cased.
confirmSwitch_noLower(line) ==
  LET a == TrimSpace(line)
  IN IF a \in {<<"y", "e", "s">>, <<"y">>} THEN "yes"
     ELSE IF a \in {<<"n", "o">>, <<"n">>} THEN "no"
     ELSE "again"

\* The switch of confirmDrop on the normalised response.
confirmSwitch(line) ==
  LET a == ToLower(TrimSpace(line))
  IN IF a \in {<<"y", "e", "s">>, <<"y">>} THEN "yes"
     ELSE IF a \in {<<"n", "o">>, <<"n">>} THEN "no"
     ELSE "again"

\* Mutant: running out of tries counts as a yes.
confirmExhausted_true == TRUE

\* confirmDrop's result when the three tries are used up (the final return).
confirmExhausted == FALSE

\* main after confirmDrop returned: drop on true, leave with exit 0 on false.
afterConfirm(r, confirmed) ==
  IF confirmed THEN [r EXCEPT !.pc = "dbDrop"]
  ELSE Exit0(Printed(r, Line("notDropped", DBName, "", "", <<>>)))

\* One pass of confirmDrop's loop: the prompt, one read, the switch.
confirmDrop(p) ==
  /\ run[p].pc = "confirmDrop"
  /\ \E eof \in BOOLEAN, line \in StdinLines :
       LET r  == Printed(run[p], Line("prompt", DBName, "", "", <<>>))
           r1 == [r EXCEPT !.answers = Append(@, line), !.tries = @ - 1]
           a  == confirmSwitch(line)
       IN run' = [run EXCEPT ![p] =
                    IF eof THEN Fatalln([r EXCEPT !.stdinErr = TRUE])
                    ELSE IF a = "yes" THEN afterConfirm(r1, TRUE)
                    ELSE IF a = "no" THEN afterConfirm(r1, FALSE)
                    ELSE IF r1.tries > 0 THEN r1
                    ELSE afterConfirm(r1, confirmExhausted)]
  /\ UNCHANGED live

dbDrop(p) ==
  /\ run[p].pc = "dbDrop"
  /\ \E fault \in BOOLEAN :
       LET r  == run[p]
           c  == r.cluster
           ok == ~fault /\ DBName \in live[c].dbs
           r1 == Logged(r, Call("DBDrop", "", "", "", ok))
       IN IF ok
            THEN /\ live' = [live EXCEPT ![c] = DBDropped(@)]
                 /\ run' = [run EXCEPT ![p] =
                      Exit0(Printed(r1, Line("dropped", DBName, "", "",
                                             <<1, Cardinality(TableList(c))>>)))]
            ELSE /\ run' = [run EXCEPT ![p] = Fatalln(r1)]
                 /\ UNCHANGED live

(* ------------------------------ table level ---------------------------- *)

\* Mutant: any listed table counts as the table asked for.
tableExistsIn_any(tblName, tbls) == tbls # {}

\* tableExists: is tblName among the listed names
tableExistsIn(tblName, tbls) == tblName \in tbls

\* Mutant: an omitted primary key is sent as the option "id".
tableCreateOpts_explicitId(table) ==
  IF table.PrimaryKey # "" THEN table.PrimaryKey ELSE BackendDefaultKey

\* tableCreate: the PrimaryKey option is set only for a non-empty declared key.
tableCreateOpts(table) == IF table.PrimaryKey # "" THEN table.PrimaryKey ELSE ""

\* Mutant: main's loop is left after the first table.
nextTable_break(r) == [r EXCEPT !.pc = "tableUp", !.i = Len(r.cfg) + 1, !.j = 1, !.lookup = {}]

\* tableUp returned nil: main's loop moves to the next entry of cfg.DBTables.
nextTable(r) == [r EXCEPT !.pc = "tableUp", !.i = @ + 1, !.j = 1, !.lookup = {}]

\* Mutant: the line of a table that exists says create.
tableIgnored_saysCreate(r, name) ==
  Printed([r EXCEPT !.pc = "addSimpleIndexes"], Line("table", name, create, "", <<>>))

\* Mutant: tableUp returns once the table is found to exist.
tableIgnored_skipIndexes(r, name) ==
  Printed(nextTable(r), Line("table", name, ignore, "", <<>>))

\* tableUp on a table that exists: the ignore line, then its indexes all the same.
tableIgnored(r, name) ==
  Printed([r EXCEPT !.pc = "addSimpleIndexes"], Line("table", name, ignore, "", <<>>))

\* main's loop over cfg.DBTables is over: the summary, then main returns.
mainSummary(p) ==
  /\ run[p].pc = "tableUp"
  /\ run[p].i > Len(run[p].cfg)
  /\ LET r == run[p]
     IN run' = [run EXCEPT ![p] =
          Return(Printed(r, Line("summary", "", "", "",
                                 <<r.dbsCreated, r.tblsCreated, r.indCreated>>)))]
  /\ UNCHANGED live

\* Mutant: the table is looked up in the listing taken when the process started.
tableExists_stale(p) ==
  /\ run[p].pc = "tableUp"
  /\ run[p].i <= Len(run[p].cfg)
  /\ \E fault \in BOOLEAN :
       LET r    == run[p]
           name == Tbl(r).Name
           done == ~fault /\ TableQueryAccepted(r.cluster)
           r1   == Logged(r, Call("TableList", name, "", "", done))
           ok   == tableExistsIn(name, {t \in TableNames : r.live0.pk[t] # Absent})
       IN run' = [run EXCEPT ![p] =
                    IF ~done THEN Fatalln(r1)
                    ELSE IF ~ok THEN [r1 EXCEPT !.pc = "tableCreate"]
                    ELSE tableIgnored(r1, name)]
  /\ UNCHANGED live

\* tableUp up to its existence check.
tableExists(p) ==
  /\ run[p].pc = "tableUp"
  /\ run[p].i <= Len(run[p].cfg)
  /\ \E fault \in BOOLEAN :
       LET r    == run[p]
           name == Tbl(r).Name
           done == ~fault /\ TableQueryAccepted(r.cluster)
           r1   == Logged(r, Call("TableList", name, "", "", done))
           ok   == tableExistsIn(name, TableList(r.cluster))
       IN run' = [run EXCEPT ![p] =
                    IF ~done THEN Fatalln(r1)
                    ELSE IF ~ok THEN [r1 EXCEPT !.pc = "tableCreate"]
                    ELSE tableIgnored(r1, name)]
  /\ UNCHANGED live

tableCreate(p, counts) ==
  /\ run[p].pc = "tableCreate"
  /\ \E fault \in BOOLEAN, n \in counts :
       LET r    == run[p]
           c    == r.cluster
           name == Tbl(r).Name
           key  == tableCreateOpts(Tbl(r))
           ok   == ~fault /\ TableCreateAccepted(c, name)
           r1   == Logged(r, Call("TableCreate", name, "", key, ok))
       IN IF ok
            THEN /\ live' = [live EXCEPT ![c] = TableCreated(@, name, key)]
                 /\ run' = [run EXCEPT ![p] =
                      Printed([Reported(r1, "TableCreate", n) EXCEPT
                                 !.tblsCreated = addCreated(@, n), !.pc = "addSimpleIndexes"],
                              Line("table", name, create, "", <<>>))]
            ELSE /\ run' = [run EXCEPT ![p] = Fatalln(r1)]
                 /\ UNCHANGED live

(* ------------------------------ index level ---------------------------- *)

\* simpleIndexMap: the lookup map built from the listed index names.
simpleIndexMap(indexes) == indexes

\* Mutant: the lookup map is never hit.
inLookup_never(lookup, s) == FALSE

\* addSimpleIndexes: the test of the lookup map, if _, ok := lookup[s]; ok
inLookup(lookup, s) == s \in lookup

\* The lookup map after an index was created: the code leaves it as fetched.
lookupAfterCreate(lookup, s) == lookup

\* Mutant: the index list is queried even when the entry declares no index.
addSimpleIndexes_alwaysQueries(p) ==
  /\ run[p].pc = "addSimpleIndexes"
  /\ \E fault \in BOOLEAN :
       LET r    == run[p]
           name == Tbl(r).Name
           done == ~fault /\ IndexQueryAccepted(r.cluster, name)
           r1   == Logged(r, Call("IndexList", name, "", "", done))
       IN run' = [run EXCEPT ![p] =
                    IF ~done THEN Fatalln(r1)
                    ELSE [r1 EXCEPT !.pc = "forIndexes", !.j = 1,
                                    !.lookup = simpleIndexMap(IndexList(r.cluster, name))]]
  /\ UNCHANGED live

\* addSimpleIndexes up to the loop: nothing to do, or the one IndexList query.
addSimpleIndexes(p) ==
  /\ run[p].pc = "addSimpleIndexes"
  /\ \E fault \in BOOLEAN :
       LET r    == run[p]
           name == Tbl(r).Name
           done == ~fault /\ IndexQueryAccepted(r.cluster, name)
           r1   == Logged(r, Call("IndexList", name, "", "", done))
       IN run' = [run EXCEPT ![p] =
                    IF Len(Tbl(r).SimpleIndexes) = 0 THEN nextTable(r)
                    ELSE IF ~done THEN Fatalln(r1)
                    ELSE [r1 EXCEPT !.pc = "forIndexes", !.j = 1,
                                    !.lookup = simpleIndexMap(IndexList(r.cluster, name))]]
  /\ UNCHANGED live

\* One pass of the loop of addSimpleIndexes over table.SimpleIndexes.
forIndexes(p) ==
  /\ run[p].pc = "forIndexes"
  /\ \E fault \in BOOLEAN :
       LET r    == run[p]
           c    == r.cluster
           name == Tbl(r).Name
       IN IF r.j > Len(Tbl(r).SimpleIndexes)
            THEN /\ run' = [run EXCEPT ![p] = nextTable(r)]
                 /\ UNCHANGED live
          ELSE LET s  == Tbl(r).SimpleIndexes[r.j]
                   ok == ~fault /\ IndexCreateAccepted(c, name, s)
                   r1 == Logged(r, Call("IndexCreate", name, s, "", ok))
               IN IF inLookup(r.lookup, s)
                    THEN /\ run' = [run EXCEPT ![p] =
                              Printed([r EXCEPT !.j = @ + 1],
                                      Line("index", s, ignore, name, <<>>))]
                         /\ UNCHANGED live
                  ELSE IF ok
                    THEN /\ live' = [live EXCEPT ![c] = IndexCreated(@, name, s)]
                         /\ run' = [run EXCEPT ![p] =
                              Printed([r1 EXCEPT !.indCreated = @ + 1, !.j = @ + 1,
                                         !.lookup = lookupAfterCreate(@, s)],
                                      Line("index", s, create, name, <<>>))]
                  ELSE /\ run' = [run EXCEPT ![p] = Fatalln(r1)]
                       /\ UNCHANGED live

(* ------------------------------ the system ----------------------------- *)

Ended(r) == r.pc = "exited"

\* How a finished reconciliation ended, as the next process of the same config sees it.
Outcome(r) ==
  [ended |-> IF r.exitCode = 0 THEN "completed" ELSE "aborted",
   created |-> \E k \in DOMAIN r.calls :
                 r.calls[k].ok /\ r.calls[k].op \in {"DBCreate", "TableCreate", "IndexCreate"}]

\* After a reconciliation the tool is started again with the same config.
Restart(p) ==
  /\ run[p].pc = "exited"
  /\ ~run[p].drop
  /\ run' = [run EXCEPT ![p] =
               NewRun(run[p].cfg, FALSE, run[p].cluster, live[run[p].cluster],
                      Outcome(run[p]))]
  /\ UNCHANGED live

\* One step of process p against a backend that reports a count in counts per creation.
Step(p, counts) ==
  \/ dbExists(p)
  \/ dbCreate(p, counts)
  \/ confirmDrop(p)
  \/ dbDrop(p)
  \/ mainSummary(p)
  \/ tableExists(p)
  \/ tableCreate(p, counts)
  \/ addSimpleIndexes(p)
  \/ forIndexes(p)

\* The steps of a process started without -dbdrop.
Reconcile(p, counts) ==
  \/ dbExists(p)
  \/ dbCreate(p, counts)
  \/ mainSummary(p)
  \/ tableExists(p)
  \/ tableCreate(p, counts)
  \/ addSimpleIndexes(p)
  \/ forIndexes(p)

\* One process, run after run, on one cluster.
Init ==
  \E tables \in Configs, d \in BOOLEAN, l \in LiveStates :
    /\ live = [c \in Clusters |-> l]
    /\ run = [p \in Procs |-> IF p = 1 THEN NewRun(tables, d, 1, l, NoPrev) ELSE NoRun(1, l)]

Next == \E p \in Procs : Step(p, {1}) \/ Restart(p)

Spec == Init /\ [][Next]_vars

\* The counts a creation's response may report (the server reports 1).
ReportedCounts == 0..MaxReported

\* One reconciliation against a backend free in the counts it reports.
InitCounts ==
  \E tables \in Configs, l \in LiveStates :
    /\ live = [c \in Clusters |-> l]
    /\ run = [p \in Procs |-> IF p = 1 THEN NewRun(tables, FALSE, 1, l, NoPrev) ELSE NoRun(1, l)]

NextCounts == Reconcile(1, ReportedCounts)

SpecCounts == InitCounts /\ [][NextCounts]_vars

\* Values of primary_key a config may carry, the backend's default written out included.
WrittenKeys == DeclaredKeys \cup {BackendDefaultKey}

\* The config with the primary keys key[1], key[2], ... in place of its own.
WithKeys(tables, key) == [k \in DOMAIN tables |-> [tables[k] EXCEPT !.PrimaryKey = key[k]]]

\* One reconciliation of a config whose primary keys are any of WrittenKeys.
InitKeys ==
  \E tables \in Configs, l \in LiveStates :
    \E key \in [DOMAIN tables -> WrittenKeys] :
      /\ live = [c \in Clusters |-> l]
      /\ run = [p \in Procs |-> IF p = 1 THEN NewRun(WithKeys(tables, key), FALSE, 1, l, NoPrev)
                                         ELSE NoRun(1, l)]

NextKeys == Reconcile(1, {1})

SpecKeys == InitKeys /\ [][NextKeys]_vars

\* No two entries of s are equal.
Distinct(s) == \A a, b \in DOMAIN s : s[a] = s[b] => a = b

\* Configs with distinct table names and, per table, distinct index names.
RaceConfigs ==
  {tables \in Configs :
     /\ Distinct([k \in DOMAIN tables |-> tables[k].Name])
     /\ \A k \in DOMAIN tables : Distinct(tables[k].SimpleIndexes)}

\* The step just taken by p met no failure but the server's rejection of the
\* creation of an object that exists.
OnlyRejections(p) ==
  LET was == run[p].calls
      now == run'[p].calls
  IN (Len(now) > Len(was) /\ ~now[Len(now)].ok) =>
       /\ now[Len(now)].op \in {"DBCreate", "TableCreate", "IndexCreate"}
       /\ CASE now[Len(now)].op = "DBCreate" -> DBName \in live[run[p].cluster].dbs
            [] now[Len(now)].op = "TableCreate" ->
                 live[run[p].cluster].pk[now[Len(now)].tbl] # Absent
            [] OTHER -> now[Len(now)].idx \in live[run[p].cluster].idx[now[Len(now)].tbl]

\* Two processes started with the same config against the same cluster.
InitRace ==
  \E tables \in RaceConfigs, l \in LiveStates :
    /\ live = [c \in Clusters |-> l]
    /\ run = [p \in Procs |-> NewRun(tables, FALSE, 1, l, NoPrev)]

\* The two processes interleave call by call.
NextRace == \E p \in Procs : Reconcile(p, {1}) /\ OnlyRejections(p)

SpecRace == InitRace /\ [][NextRace]_vars

\* The sequences that are tables in another order.
Permuted(tables) ==
  LET n == Len(tables)
  IN {[k \in 1..n |-> tables[f[k]]] :
        f \in {g \in [1..n -> 1..n] : \A a, b \in 1..n : a # b => g[a] # g[b]}}

\* Two reconciliations from the same live schema, each on a cluster of its own:
\* process 1 with a config, process 2 with the same tables in another order.
InitPerm ==
  \E tables \in Configs, l \in LiveStates :
    \E other \in Permuted(tables) :
      /\ live = [c \in Clusters |-> l]
      /\ run = [p \in Procs |-> IF p = 1 THEN NewRun(tables, FALSE, 1, l, NoPrev)
                                         ELSE NewRun(other, FALSE, 2, l, NoPrev)]

\* Process 2 is run once process 1 has completed, to be compared with it.
NextPerm ==
  \/ Reconcile(1, {1})
  \/ (Ended(run[1]) /\ run[1].exitCode = 0 /\ Reconcile(2, {1}))

SpecPerm == InitPerm /\ [][NextPerm]_vars

(* ------------------------- vocabulary of the claims -------------------- *)

CreateOps == {"DBCreate", "TableCreate", "IndexCreate"}

StatusKinds == {"database", "table", "index"}

\* A process started without -dbdrop.
Reconciles(r) == r.pc # "off" /\ ~r.drop

\* No backend call of the process has failed.
NoFailure(r) == \A k \in DOMAIN r.calls : r.calls[k].ok

SummaryPrinted(r) == \E k \in DOMAIN r.out : r.out[k].kind = "summary"

\* The object a backend call is about.
Obj(call) == <<call.op, call.tbl, call.idx>>

\* The declared objects, each named by the call that creates it.
Declared(r) ==
  {<<"DBCreate", "", "">>}
  \cup {<<"TableCreate", r.cfg[k].Name, "">> : k \in DOMAIN r.cfg}
  \cup UNION {{<<"IndexCreate", r.cfg[k].Name, r.cfg[k].SimpleIndexes[m]>> :
                 m \in DOMAIN r.cfg[k].SimpleIndexes} : k \in DOMAIN r.cfg}

\* Is the object in the schema l
PresentIn(l, o) ==
  CASE o[1] = "DBCreate" -> DBName \in l.dbs
    [] o[1] = "TableCreate" -> l.pk[o[2]] # Absent
    [] OTHER -> o[3] \in l.idx[o[2]]

\* The declared objects the schema l lacks.
MissingAt(l, r) == {o \in Declared(r) : ~PresentIn(l, o)}

\* The objects the process has created.
Created(r) ==
  {Obj(r.calls[k]) : k \in {m \in DOMAIN r.calls : r.calls[m].ok /\ r.calls[m].op \in CreateOps}}

CreateCalls(r) == {k \in DOMAIN r.calls : r.calls[k].op \in CreateOps}

OfOp(objs, op) == {o \in objs : o[1] = op}

\* Responses by what the user meant, whatever the case and the blanks around.
AffirmativeLines == {<<"y", "\n">>, <<" ", "Y", "E", "S", "\n">>}

NegativeLines == {<<"n", "\n">>, <<"N", "o", " ", "\n">>}

UnrecognizedLines == StdinLines \ (AffirmativeLines \cup NegativeLines)

(* -------------------------------- claims ------------------------------- *)

\* C1 (idempotence): a reconciliation started after a reconciliation of the same
\* config completed issues no create call, prints only "ignore" status lines,
\* leaves the live schema as the first run left it and, when none of its
\* queries fails, ends with the summary 0, 0, 0.
C1_Idempotent ==
  \A p \in Procs :
    LET r == run[p]
    IN (r.pc # "off" /\ r.prev.ended = "completed") =>
         /\ ~r.drop
         /\ CreateCalls(r) = {}
         /\ \A k \in DOMAIN r.calls : r.calls[k].op # "DBDrop"
         /\ \A k \in DOMAIN r.out :
              r.out[k].kind \in StatusKinds => r.out[k].action = ignore
         /\ live[r.cluster] = r.live0
         /\ (Ended(r) /\ NoFailure(r)) =>
              /\ r.exitCode = 0
              /\ r.out[Len(r.out)] = Line("summary", "", "", "", <<0, 0, 0>>)

C1_Witness ==
  \E p \in Procs :
    LET r == run[p]
    IN /\ r.prev = [ended |-> "completed", created |-> TRUE]
       /\ Ended(r) /\ NoFailure(r)
       /\ Len(r.cfg) >= 2
       /\ \E k \in DOMAIN r.out : r.out[k].kind = "index" /\ r.out[k].action = ignore

\* C2 (completeness): when a reconciliation reaches the summary, the database,
\* every declared table and every declared index are in the live schema,
\* whatever part of them the run found at its start.
C2_Complete ==
  \A p \in Procs :
    LET r == run[p]
    IN (Reconciles(r) /\ Ended(r) /\ SummaryPrinted(r)) => MissingAt(live[r.cluster], r) = {}

C2_Witness ==
  \E p \in Procs :
    LET r == run[p]
    IN /\ Reconciles(r) /\ Ended(r) /\ SummaryPrinted(r)
       /\ OfOp(MissingAt(r.live0, r), "TableCreate") # {}
       /\ \E o \in OfOp(MissingAt(r.live0, r), "IndexCreate") : r.live0.pk[o[2]] # Absent

\* C3 (exactness of creation), as claimed: a create call is issued only for a
\* declared object that was absent when the run started and at most once per
\* object, and a completed run's counters are the numbers of declared objects
\* that were absent at the start.
C3_ExactCreation ==
  \A p \in Procs :
    LET r == run[p]
    IN Reconciles(r) =>
         /\ \A k \in CreateCalls(r) : Obj(r.calls[k]) \in MissingAt(r.live0, r)
         /\ \A k, m \in CreateCalls(r) : k # m => Obj(r.calls[k]) # Obj(r.calls[m])
         /\ (Ended(r) /\ SummaryPrinted(r)) =>
              /\ r.dbsCreated = Cardinality(OfOp(MissingAt(r.live0, r), "DBCreate"))
              /\ r.tblsCreated = Cardinality(OfOp(MissingAt(r.live0, r), "TableCreate"))
              /\ r.indCreated = Cardinality(OfOp(MissingAt(r.live0, r), "IndexCreate"))

\* C4 (creation never removes or mutates): during a run without -dbdrop no
\* database, table or index of the starting schema goes away, every table that
\* existed keeps its primary key, and no drop call is issued.
C4_NeverRemoves ==
  \A p \in Procs :
    LET r == run[p]
        l == live[r.cluster]
    IN Reconciles(r) =>
         /\ r.live0.dbs \subseteq l.dbs
         /\ \A t \in TableNames :
              /\ r.live0.pk[t] # Absent => l.pk[t] = r.live0.pk[t]
              /\ r.live0.idx[t] \subseteq l.idx[t]
         /\ \A k \in DOMAIN r.calls : r.calls[k].op # "DBDrop"

C4_Witness ==
  \E p \in Procs :
    LET r == run[p]
    IN /\ Reconciles(r) /\ Ended(r) /\ Created(r) # {}
       /\ \E k \in DOMAIN r.cfg :
            /\ r.cfg[k].PrimaryKey = "serial_num"
            /\ r.live0.pk[r.cfg[k].Name] = BackendDefaultKey
            /\ r.i > k

\* The user declined: a negative response, or three unrecognized ones.
Declined(r) ==
  /\ r.answers # <<>>
  /\ \/ r.answers[Len(r.answers)] \in NegativeLines
     \/ /\ Len(r.answers) = 3
        /\ \A k \in 1..3 : r.answers[k] \in UnrecognizedLines

\* C5 (drop safety): with -dbdrop, (a) an absent database ends the run with a
\* fatal error, exit 1, and neither a create nor a drop call; (b) a negative
\* response, or three unrecognized ones, ends it with exit 0, no drop call and
\* the live schema as it was.
C5_DropSafe ==
  \A p \in Procs :
    LET r == run[p]
    IN (r.pc # "off" /\ r.drop) =>
         /\ (DBName \notin r.live0.dbs /\ r.pc # "dbExists") =>
              /\ Ended(r) /\ r.exitCode = 1
              /\ \A k \in DOMAIN r.calls : r.calls[k].op \notin CreateOps \cup {"DBDrop"}
              /\ live[r.cluster] = r.live0
         /\ (DBName \in r.live0.dbs /\ Declined(r)) =>
              /\ Ended(r) /\ r.exitCode = 0
              /\ \A k \in DOMAIN r.calls : r.calls[k].op \notin CreateOps \cup {"DBDrop"}
              /\ live[r.cluster] = r.live0

C5_Witness ==
  \E p \in Procs :
    LET r == run[p]
    IN /\ r.drop /\ Ended(r) /\ TableList(r.cluster) # {}
       /\ Len(r.answers) = 3
       /\ \A k \in 1..3 : r.answers[k] \in UnrecognizedLines

\* C6 (fail-fast abort): a failed backend call of a reconciliation is the last
\* call the process issues; the process has then exited with code 1 and has not
\* printed the summary.
C6_FailFast ==
  \A p \in Procs :
    LET r == run[p]
    IN Reconciles(r) =>
         \A k \in DOMAIN r.calls :
           ~r.calls[k].ok =>
             /\ k = Len(r.calls)
             /\ Ended(r) /\ r.exitCode = 1
             /\ ~SummaryPrinted(r)

C6_Witness ==
  \E p \in Procs :
    LET r == run[p]
    IN /\ Reconciles(r) /\ Ended(r) /\ r.calls # <<>>
       /\ LET last == r.calls[Len(r.calls)]
          IN /\ ~last.ok /\ last.op = "TableCreate"
             /\ r.i < Len(r.cfg)
             /\ MissingAt(live[r.cluster], r) # {}

\* C7 (resume after a partial failure): a reconciliation started after one of the
\* same config was aborted by a backend failure, and in which no backend call
\* fails, ends with exit 0 and the summary, has created exactly the declared
\* objects that were absent at its start, each by one create call, and leaves
\* every declared object in the live schema.
C7_Resumes ==
  \A p \in Procs :
    LET r == run[p]
    IN (r.pc # "off" /\ r.prev.ended = "aborted" /\ Ended(r) /\ NoFailure(r)) =>
         /\ r.exitCode = 0 /\ SummaryPrinted(r)
         /\ Created(r) = MissingAt(r.live0, r)
         /\ Cardinality(CreateCalls(r)) = Cardinality(Created(r))
         /\ MissingAt(live[r.cluster], r) = {}

C7_Witness ==
  \E p \in Procs :
    LET r == run[p]
    IN /\ r.prev = [ended |-> "aborted", created |-> TRUE]
       /\ Ended(r) /\ NoFailure(r)
       /\ OfOp(Created(r), "IndexCreate") # {}
       /\ \E k \in DOMAIN r.out : r.out[k].kind = "table" /\ r.out[k].action = ignore

\* How many times x occurs in the sequence s.
Count(s, x) == Cardinality({k \in DOMAIN s : s[k] = x})

\* The lines of both sequences are the same, up to their order.
SameLines(s, t) ==
  /\ Len(s) = Len(t)
  /\ \A k \in DOMAIN s : Count(s, s[k]) = Count(t, s[k])

\* The names of a schema: its databases, tables and indexes, without the keys.
Names(l) == <<l.dbs, {t \in TableNames : l.pk[t] # Absent}, l.idx>>

C9_DuplicateIgnored ==
  \A p \in Procs :
    LET r == run[p]
    IN \A k, m \in DOMAIN r.calls :
         (k < m /\ r.calls[k].op = "IndexCreate" /\ r.calls[k].ok)
           => ~(r.calls[m].op = "IndexCreate" /\ Obj(r.calls[m]) = Obj(r.calls[k]))

\* C10 (connection release), as claimed: a process that has ended has closed
\* its session, on every path.
C10_Released ==
  \A p \in Procs : Ended(run[p]) => run[p].closed


\* The status lines one entry of cfg.DBTables stands for: its table, then its indexes.
TableShape(t) ==
  <<<<"table", t.Name, "">>>> \o
  [m \in 1..Len(t.SimpleIndexes) |-> <<"index", t.SimpleIndexes[m], t.Name>>]

RECURSIVE TablesShape(_)
TablesShape(tables) ==
  IF tables = <<>> THEN <<>> ELSE TableShape(Head(tables)) \o TablesShape(Tail(tables))

\* The output of a completed reconciliation, each line by kind, name and table.
ExpectedShape(r) ==
  <<<<"database", DBName, "">>>> \o TablesShape(r.cfg) \o <<<<"summary", "", "">>>>

ShapeOf(out) == [k \in DOMAIN out |-> <<out[k].kind, out[k].name, out[k].on>>]

IsPrefix(s, t) == Len(s) <= Len(t) /\ \A k \in DOMAIN s : s[k] = t[k]

\* The object a status line is about, named as the calls name it.
LineObj(line) ==
  CASE line.kind = "database" -> <<"DBCreate", "", "">>
    [] line.kind = "table" -> <<"TableCreate", line.name, "">>
    [] OTHER -> <<"IndexCreate", line.on, line.name>>

IsCreateLine(line) == line.kind \in StatusKinds /\ line.action = create

IsCreated(call) == call.ok /\ call.op \in CreateOps

\* The objects of the create lines, in the order of the lines.
CreateLineObjs(r) ==
  LET s == SelectSeq(r.out, IsCreateLine) IN [k \in DOMAIN s |-> LineObj(s[k])]

\* The objects of the create calls that succeeded, in the order of the calls.
CreatedObjs(r) ==
  LET s == SelectSeq(r.calls, IsCreated) IN [k \in DOMAIN s |-> Obj(s[k])]

\* C11 (output contract), as claimed: a completed reconciliation has printed one
\* database line, per declared table entry its table line and its index lines
\* in declared order, and the summary; and a line says "create" if and only if
\* a create call for its object succeeded in this run.
C11_CreateIffCreatedInRun ==
  \A p \in Procs :
    LET r == run[p]
    IN (Reconciles(r) /\ Ended(r) /\ r.exitCode = 0) =>
         /\ ShapeOf(r.out) = ExpectedShape(r)
         /\ \A k \in DOMAIN r.out :
              r.out[k].kind \in StatusKinds =>
                /\ r.out[k].action \in {create, ignore}
                /\ r.out[k].action = create <=> LineObj(r.out[k]) \in Created(r)

\* C11 (output contract), as amended: the output of a reconciliation is at every
\* moment a prefix of (database line; per declared table entry its table line
\* and its index lines in declared order; summary) and is all of it when the
\* run completes; every status line says "create" or "ignore"; and the create
\* lines are, one for one and in the same order, the create calls that
\* succeeded, so a line says "create" exactly when the create call issued for
\* its own entry succeeded, and is printed after it.
C11_OutputContract ==
  \A p \in Procs :
    LET r == run[p]
    IN Reconciles(r) =>
         /\ IsPrefix(ShapeOf(r.out), ExpectedShape(r))
         /\ (Ended(r) /\ r.exitCode = 0) => ShapeOf(r.out) = ExpectedShape(r)
         /\ SummaryPrinted(r) => (Ended(r) /\ r.exitCode = 0)
         /\ \A k \in DOMAIN r.out :
              r.out[k].kind \in StatusKinds => r.out[k].action \in {create, ignore}
         /\ CreateLineObjs(r) = CreatedObjs(r)

C11_Witness ==
  \E p \in Procs :
    LET r == run[p]
    IN /\ Reconciles(r) /\ Ended(r) /\ r.exitCode = 0
       /\ Len(r.cfg) = 2 /\ r.cfg[1].Name = r.cfg[2].Name
       /\ Len(r.cfg[2].SimpleIndexes) = 1
       /\ r.out[2].action = create /\ r.out[3].action = ignore
       /\ r.out[4].action = create


\* A process started with -dbdrop.
Drops(r) == r.pc # "off" /\ r.drop

CallsOf(r, ops) == {k \in DOMAIN r.calls : r.calls[k].op \in ops}

\* C12 (drop and creation are mutually exclusive): a run with the drop flag
\* never issues a create-database, create-table or create-index call nor a
\* table or index listing, never prints the summary, and is always inside the
\* database-level step (existence check, confirmation, drop) or terminated.
C12_DropExcludesCreation ==
  \A p \in Procs :
    LET r == run[p]
    IN Drops(r) =>
         /\ \A k \in DOMAIN r.calls : r.calls[k].op \in {"DBList", "DBDrop"}
         /\ ~SummaryPrinted(r)
         /\ \A k \in DOMAIN r.out : r.out[k].kind \notin StatusKinds
         /\ r.pc \in {"dbExists", "confirmDrop", "dbDrop", "exited"}
         /\ r.dbsCreated = 0 /\ r.tblsCreated = 0 /\ r.indCreated = 0

C12_Witness ==
  \E p \in Procs :
    LET r == run[p]
    IN /\ Drops(r) /\ Ended(r) /\ r.exitCode = 0
       /\ Len(r.cfg) >= 1 /\ Len(r.cfg[1].SimpleIndexes) >= 1
       /\ \E k \in DOMAIN r.calls : r.calls[k].op = "DBDrop" /\ r.calls[k].ok
       /\ DBName \notin live[r.cluster].dbs


RECURSIVE SumReported(_, _)
\* The sum of the counts reported for the successful calls of one operation.
SumReported(reported, op) ==
  IF reported = <<>> THEN 0
  ELSE (IF Head(reported).op = op THEN Head(reported).n ELSE 0)
       + SumReported(Tail(reported), op)

OkCalls(r, op) == {k \in DOMAIN r.calls : r.calls[k].op = op /\ r.calls[k].ok}

Counters(r) == <<r.dbsCreated, r.tblsCreated, r.indCreated>>

\* The counters of a process agree with the record of its successful creations.
CountersAgree(r) ==
  /\ r.dbsCreated = SumReported(r.reported, "DBCreate")
  /\ r.tblsCreated = SumReported(r.reported, "TableCreate")
  /\ r.indCreated = Cardinality(OkCalls(r, "IndexCreate"))
  /\ Len(r.reported) = Cardinality(OkCalls(r, "DBCreate")) + Cardinality(OkCalls(r, "TableCreate"))

\* A step of a process that is not a successful creation leaves the counters
\* alone, and no step makes a counter smaller.
CountersStep(p) ==
  LET r == run[p]
      s == run'[p]
      new == IF Len(s.calls) > Len(r.calls) THEN {s.calls[Len(s.calls)]} ELSE {}
  IN /\ s.dbsCreated >= r.dbsCreated
     /\ s.tblsCreated >= r.tblsCreated
     /\ s.indCreated >= r.indCreated
     /\ (\A call \in new : ~IsCreated(call)) => Counters(s) = Counters(r)
     /\ \A call \in new :
          /\ call.op # "DBCreate" => s.dbsCreated = r.dbsCreated
          /\ call.op # "TableCreate" => s.tblsCreated = r.tblsCreated
          /\ call.op # "IndexCreate" => s.indCreated = r.indCreated
          /\ (call.op = "IndexCreate" /\ call.ok) => s.indCreated = r.indCreated + 1

\* C13 (counter invariant): the three counters start at 0; at every state
\* dbsCreated is the sum of the counts reported for the successful
\* create-database calls, tblsCreated the sum of the counts reported for the
\* successful create-table calls (whatever the counts, 0 and 2 included) and
\* indCreated the number of successful create-index calls; a step that prints
\* ignore, a listing and a failed creation change no counter, and no counter
\* ever decreases.
C13_Counters ==
  /\ \A p \in Procs : Counters(run[p]) = <<0, 0, 0>>
  /\ [](\A p \in Procs : CountersAgree(run[p]))
  /\ [][\A p \in Procs : CountersStep(p)]_vars

C13_Witness ==
  LET r == run[1]
  IN /\ Ended(r) /\ r.exitCode = 0
     /\ r.dbsCreated = 0 /\ Cardinality(OkCalls(r, "DBCreate")) = 1
     /\ r.tblsCreated = 2 /\ Cardinality(OkCalls(r, "TableCreate")) = 1
     /\ r.indCreated = 1
     /\ \E k \in DOMAIN r.out : r.out[k].action = ignore


Prompts(r) == {k \in DOMAIN r.out : r.out[k].kind = "prompt"}

\* The responses read so far end with an affirmative one, the ones before it unrecognized.
Confirmed(r) ==
  /\ r.answers # <<>>
  /\ r.answers[Len(r.answers)] \in AffirmativeLines
  /\ \A k \in 1..(Len(r.answers) - 1) : r.answers[k] \in UnrecognizedLines

\* C14 (confirmation state machine): with -dbdrop and the database present the
\* user is prompted at most 3 times and at most 3 responses are read; only the
\* last response read can be a recognized one (nothing is read after the
\* deciding response); the drop call is issued at most once, and only after an
\* affirmative response preceded by unrecognized ones; after such a response the
\* process is about to issue the drop call or has issued it, and has issued it
\* when it has terminated; a drop call that succeeded is followed by exit 0; a
\* negative response ends the process without a drop call.
C14_Confirmation ==
  \A p \in Procs :
    LET r == run[p]
        drops == CallsOf(r, {"DBDrop"})
    IN (Drops(r) /\ DBName \in r.live0.dbs) =>
         /\ Cardinality(Prompts(r)) <= ConfirmTries
         /\ Len(r.answers) <= ConfirmTries
         /\ Cardinality(Prompts(r)) = Len(r.answers) + (IF r.stdinErr THEN 1 ELSE 0)
         /\ \A k \in 1..(Len(r.answers) - 1) : r.answers[k] \in UnrecognizedLines
         /\ Cardinality(drops) <= 1
         /\ drops # {} => Confirmed(r)
         /\ (Confirmed(r) /\ ~r.stdinErr) => (r.pc = "dbDrop" \/ drops # {})
         /\ (Confirmed(r) /\ Ended(r)) => drops # {}
         /\ (\E k \in drops : r.calls[k].ok) => (Ended(r) /\ r.exitCode = 0)
         /\ (r.answers # <<>> /\ r.answers[Len(r.answers)] \in NegativeLines) =>
              (Ended(r) /\ r.exitCode = 0 /\ drops = {})

C14_Witness ==
  \E p \in Procs :
    LET r == run[p]
    IN /\ Drops(r) /\ DBName \in r.live0.dbs
       /\ Len(r.answers) = 3
       /\ r.answers[1] \in UnrecognizedLines /\ r.answers[2] \in UnrecognizedLines
       /\ r.answers[3] = <<" ", "Y", "E", "S", "\n">>
       /\ \E k \in DOMAIN r.calls : r.calls[k].op = "DBDrop" /\ r.calls[k].ok
       /\ Ended(r) /\ r.exitCode = 0


TableLevelOps == {"TableList", "TableCreate", "IndexList", "IndexCreate"}

\* The database existence check of the process answered "present".
AnsweredPresent(r) ==
  /\ r.calls # <<>>
  /\ r.calls[1].op = "DBList" /\ r.calls[1].ok
  /\ DBName \in r.live0.dbs

\* C15 (database before tables): in a reconciliation on its own, a table
\* listing, table creation, index listing or index creation call is issued only
\* after the existence check answered "present" or a create-database call
\* succeeded; the process is past the database-level step only in those two
\* cases; after a failed create-database call no table or index call is issued
\* and the process has terminated with exit 1.
C15_DatabaseFirst ==
  \A p \in Procs :
    LET r == run[p]
    IN Reconciles(r) =>
         /\ \A k \in CallsOf(r, TableLevelOps) :
              \/ AnsweredPresent(r) /\ k > 1
              \/ \E d \in 1..(k - 1) : r.calls[d].op = "DBCreate" /\ r.calls[d].ok
         /\ r.pc \in {"tableUp", "tableCreate", "addSimpleIndexes", "forIndexes"} =>
              (AnsweredPresent(r) \/ OkCalls(r, "DBCreate") # {})
         /\ AnsweredPresent(r) => CallsOf(r, {"DBCreate"}) = {}
         /\ (\E k \in CallsOf(r, {"DBCreate"}) : ~r.calls[k].ok) =>
              /\ CallsOf(r, TableLevelOps) = {}
              /\ Ended(r) /\ r.exitCode = 1
              /\ \A k \in DOMAIN r.out : r.out[k].kind \notin StatusKinds

C15_Witness ==
  \E p \in Procs :
    LET r == run[p]
    IN /\ Reconciles(r) /\ DBName \notin r.live0.dbs
       /\ Len(r.calls) >= 4
       /\ r.calls[2].op = "DBCreate" /\ r.calls[2].ok
       /\ r.calls[3].op = "TableList" /\ r.calls[4].op = "TableCreate"

C15_WitnessFailed ==
  \E p \in Procs :
    LET r == run[p]
    IN /\ Reconciles(r) /\ Len(r.cfg) >= 1 /\ Ended(r)
       /\ \E k \in DOMAIN r.calls : r.calls[k].op = "DBCreate" /\ ~r.calls[k].ok


\* The positions in r.calls of the calls of one operation, in order.
PositionsOf(r, op) ==
  LET IsOp(k) == r.calls[k].op = op
  IN SelectSeq([k \in DOMAIN r.calls |-> k], IsOp)

\* The index listings issued while entry m of the config was being processed:
\* those after the m-th table listing and before the next one.
IndexListsOf(r, m) ==
  LET at == PositionsOf(r, "TableList")
      to == IF m < Len(at) THEN at[m + 1] ELSE Len(r.calls) + 1
  IN {k \in CallsOf(r, {"IndexList"}) : at[m] < k /\ k < to}

\* The number of entries whose processing has begun, and of those done with.
Begun(r) == IF r.pc \in {"tableCreate", "addSimpleIndexes", "forIndexes"} THEN r.i
            ELSE IF r.pc = "tableUp" \/ SummaryPrinted(r) THEN r.i - 1
            ELSE Len(PositionsOf(r, "TableList"))

Processed(r) == IF r.pc = "tableUp" \/ SummaryPrinted(r) THEN r.i - 1
                ELSE Begun(r) - 1

\* C16 (bounded read queries): a reconciliation queries the database list once
\* and never again; it queries the table list once per declared entry it
\* begins, for that entry's name and in declared order; while an entry is
\* processed it queries the index list of that table at most once, not at all
\* if the entry declares no index, and exactly once, for that table, if the
\* entry declares at least one index and has been processed, however many
\* indexes the entry declares or creates.
C16_BoundedReads ==
  \A p \in Procs :
    LET r  == run[p]
        at == PositionsOf(r, "TableList")
    IN Reconciles(r) =>
         /\ Len(PositionsOf(r, "DBList")) = (IF r.pc = "dbExists" THEN 0 ELSE 1)
         /\ CallsOf(r, {"DBList"}) \subseteq {1}
         /\ Len(at) = Begun(r) /\ Len(at) <= Len(r.cfg)
         /\ SummaryPrinted(r) => Len(at) = Len(r.cfg)
         /\ CallsOf(r, {"IndexList"}) = UNION {IndexListsOf(r, m) : m \in DOMAIN at}
         /\ \A m \in DOMAIN at :
              /\ r.calls[at[m]].tbl = r.cfg[m].Name
              /\ Cardinality(IndexListsOf(r, m)) <= 1
              /\ \A k \in IndexListsOf(r, m) : r.calls[k].tbl = r.cfg[m].Name
              /\ r.cfg[m].SimpleIndexes = <<>> => IndexListsOf(r, m) = {}
              /\ (r.cfg[m].SimpleIndexes # <<>> /\ m <= Processed(r)) =>
                   Cardinality(IndexListsOf(r, m)) = 1

C16_Witness ==
  \E p \in Procs :
    LET r == run[p]
    IN /\ Reconciles(r) /\ SummaryPrinted(r) /\ Len(r.cfg) = 1
       /\ Len(r.cfg[1].SimpleIndexes) = 2
       /\ Cardinality(OkCalls(r, "DBCreate")) = 1
       /\ Cardinality(OkCalls(r, "IndexCreate")) = 2
       /\ Cardinality(CallsOf(r, {"DBList"})) = 1
       /\ Cardinality(CallsOf(r, {"IndexList"})) = 1
       /\ Cardinality(CallsOf(r, {"TableList"})) = 1

C16_WitnessNoIndexes ==
  \E p \in Procs :
    LET r == run[p]
    IN /\ Reconciles(r) /\ SummaryPrinted(r) /\ Len(r.cfg) = 2
       /\ Len(r.cfg[1].SimpleIndexes) = 1 /\ r.cfg[2].SimpleIndexes = <<>>
       /\ Cardinality(CallsOf(r, {"IndexList"})) = 1
       /\ Cardinality(CallsOf(r, {"TableList"})) = 2


\* The create-table calls of the process, each with the entry that issued it:
\* the call right after the m-th table listing is entry m's.
TableCreatesOf(r) ==
  LET at == PositionsOf(r, "TableList")
  IN {<<at[m] + 1, m>> : m \in {n \in DOMAIN at : /\ at[n] + 1 <= Len(r.calls)
                                                  /\ r.calls[at[n] + 1].op = "TableCreate"}}

\* C17 (primary key of a created table), as claimed: a table created by the
\* reconciliation has the declared primary key when that is non-empty and the
\* backend default "id" when it is empty, and no create-table call ever carries
\* the string "id" as its primary-key option.
C17_NeverPassesId ==
  LET r == run[1]
  IN \A ck \in TableCreatesOf(r) :
       LET call == r.calls[ck[1]]
           t    == r.cfg[ck[2]]
       IN /\ call.key # BackendDefaultKey
          /\ call.ok => live[r.cluster].pk[t.Name] =
                          (IF t.PrimaryKey # "" THEN t.PrimaryKey ELSE BackendDefaultKey)

\* C17 (primary key of a created table), as amended: every create-table call is
\* issued by the entry being processed, for that entry's table, and carries as
\* its primary-key option the entry's declared primary key when that is
\* non-empty and no option when it is empty (so it carries "id" only when the
\* config itself declares "id"); a table created by the reconciliation has the
\* declared primary key when that is non-empty and the backend default "id"
\* when it is empty.
C17_PrimaryKey ==
  LET r == run[1]
  IN /\ CallsOf(r, {"TableCreate"}) = {ck[1] : ck \in TableCreatesOf(r)}
     /\ \A ck \in TableCreatesOf(r) :
          LET call == r.calls[ck[1]]
              t    == r.cfg[ck[2]]
          IN /\ call.tbl = t.Name
             /\ call.key = t.PrimaryKey
             /\ (t.PrimaryKey # BackendDefaultKey) => call.key # BackendDefaultKey
             /\ call.ok => live[r.cluster].pk[t.Name] =
                             (IF t.PrimaryKey # "" THEN t.PrimaryKey ELSE BackendDefaultKey)

C17_Witness ==
  LET r == run[1]
  IN /\ Ended(r) /\ r.exitCode = 0 /\ Len(r.cfg) = 2
     /\ r.cfg[1].PrimaryKey = "serial_num" /\ r.cfg[2].PrimaryKey = ""
     /\ r.cfg[1].Name # r.cfg[2].Name
     /\ Cardinality(OkCalls(r, "TableCreate")) = 2
     /\ live[r.cluster].pk[r.cfg[1].Name] = "serial_num"
     /\ live[r.cluster].pk[r.cfg[2].Name] = BackendDefaultKey


\* The place in the output of the table line of entry m, and of its n-th index line.
TableLineAt(r, m) == 1 + Len(TablesShape(SubSeq(r.cfg, 1, m - 1))) + 1

IndexLineAt(r, m, n) == TableLineAt(r, m) + n

\* Entries a < b of the config name the same table, absent when the process started.
Repeats(r, a, b) ==
  /\ a \in DOMAIN r.cfg /\ b \in DOMAIN r.cfg /\ a < b
  /\ r.cfg[a].Name = r.cfg[b].Name
  /\ r.live0.pk[r.cfg[a].Name] = Absent

\* C18 (duplicate table entries): when two entries name the same table, absent
\* at the start, and the later entry's table listing has answered: the table
\* was created by exactly one call, issued by the first entry of that name with
\* that entry's primary key, which is the table's primary key from then on; the
\* later entry issues no create-table call and its table line says ignore; its
\* declared indexes are reconciled all the same, against an index listing of
\* its own: each has its status line and is in the live schema once the entry is
\* done; and the process ends with exit 0 and the summary if no call failed.
C18_DuplicateTable ==
  \A p \in Procs :
    LET r  == run[p]
        at == PositionsOf(r, "TableList")
    IN Reconciles(r) =>
         \A a, b \in DOMAIN r.cfg :
           (Repeats(r, a, b) /\ b <= Len(at) /\ r.calls[at[b]].ok) =>
             LET t     == r.cfg[b].Name
                 first == CHOOSE m \in 1..a : /\ r.cfg[m].Name = t
                                              /\ \A n \in 1..(m - 1) : r.cfg[n].Name # t
                 made  == {k \in CallsOf(r, {"TableCreate"}) : r.calls[k].tbl = t}
             IN /\ made = {at[first] + 1}
                /\ r.calls[at[first] + 1].ok
                /\ r.calls[at[first] + 1].key = r.cfg[first].PrimaryKey
                /\ live[r.cluster].pk[t] =
                     (IF r.cfg[first].PrimaryKey # "" THEN r.cfg[first].PrimaryKey
                      ELSE BackendDefaultKey)
                /\ TableLineAt(r, b) <= Len(r.out)
                /\ r.out[TableLineAt(r, b)] = Line("table", t, ignore, "", <<>>)
                /\ r.out[TableLineAt(r, first)] = Line("table", t, create, "", <<>>)
                /\ (r.cfg[b].SimpleIndexes # <<>> /\ b <= Processed(r)) =>
                     /\ Cardinality(IndexListsOf(r, b)) = 1
                     /\ \A n \in DOMAIN r.cfg[b].SimpleIndexes :
                          r.cfg[b].SimpleIndexes[n] \in live[r.cluster].idx[t]
                     /\ \A n \in DOMAIN r.cfg[b].SimpleIndexes :
                          r.out[IndexLineAt(r, b, n)].name = r.cfg[b].SimpleIndexes[n]
                /\ (Ended(r) /\ NoFailure(r)) => (r.exitCode = 0 /\ SummaryPrinted(r))

C18_Witness ==
  \E p \in Procs :
    LET r == run[p]
    IN /\ Reconciles(r) /\ Repeats(r, 1, 2) /\ Len(r.cfg) = 2
       /\ r.cfg[1].PrimaryKey = "serial_num" /\ r.cfg[2].PrimaryKey = ""
       /\ r.cfg[1].SimpleIndexes = <<>> /\ Len(r.cfg[2].SimpleIndexes) = 1
       /\ Ended(r) /\ r.exitCode = 0 /\ SummaryPrinted(r)
       /\ live[r.cluster].pk[r.cfg[1].Name] = "serial_num"
       /\ r.tblsCreated = 1 /\ r.indCreated = 1


\* The successful create calls of all processes for the object o, as (process, call).
Creations(o) ==
  UNION {{<<p, k>> : k \in {n \in DOMAIN run[p].calls :
                              IsCreated(run[p].calls[n]) /\ Obj(run[p].calls[n]) = o}} :
           p \in Procs}

\* The create calls of the process that the server rejected.
Rejected(r) == {k \in CreateCalls(r) : ~r.calls[k].ok}

\* C19 (two raced runs): when two reconciliations of the same config (distinct
\* table names, distinct index names per table) interleave against one cluster
\* whose only failure is the rejection of the creation of an object that
\* exists: no object is created more than once over both processes; the two
\* processes never both abort, so when both have terminated one of them has
\* completed with exit 0 and the summary, and every declared object is then in
\* the live schema; a process whose create call was rejected had found the
\* object absent and lost the race: it has terminated with exit 1 on that
\* call, without summary and without a status line for that object.
C19_RacedRuns ==
  /\ \A o \in Declared(run[1]) : Cardinality(Creations(o)) <= 1
  /\ \E p \in Procs : run[p].exitCode = 0
  /\ (\A p \in Procs : Ended(run[p])) =>
       /\ \E p \in Procs : run[p].exitCode = 0 /\ SummaryPrinted(run[p])
       /\ MissingAt(live[1], run[1]) = {}
  /\ \A p \in Procs :
       LET r == run[p]
       IN \A k \in Rejected(r) :
            /\ k = Len(r.calls) /\ Rejected(r) = {k}
            /\ Ended(r) /\ r.exitCode = 1 /\ ~SummaryPrinted(r)
            /\ \A n \in DOMAIN r.out : LineObj(r.out[n]) # Obj(r.calls[k])
            /\ \E c \in Creations(Obj(r.calls[k])) : c[1] # p

C19_Witness ==
  /\ Ended(run[1]) /\ Ended(run[2])
  /\ run[1].exitCode = 1 /\ run[2].exitCode = 0 /\ SummaryPrinted(run[2])
  /\ \E k \in Rejected(run[1]) : run[1].calls[k].op = "IndexCreate"
  /\ OkCalls(run[1], "TableCreate") # {}
  /\ OkCalls(run[2], "DBCreate") # {}


\* C20 (confirmation input failure): with -dbdrop and the database present, a
\* failed read of a confirmation response (end of input) ends the process at
\* once with exit 1: fewer than 3 responses had been read and none of them was
\* recognized, no drop call is issued, the live schema is as it was, and
\* neither the "dropped" nor the "not dropped" message is printed, so the
\* process ends in neither the confirmed nor the declined (exit 0) outcome.
C20_InputFailure ==
  \A p \in Procs :
    LET r == run[p]
    IN (Drops(r) /\ r.stdinErr) =>
         /\ DBName \in r.live0.dbs
         /\ Ended(r) /\ r.exitCode = 1
         /\ Len(r.answers) < ConfirmTries
         /\ \A k \in DOMAIN r.answers : r.answers[k] \in UnrecognizedLines
         /\ CallsOf(r, {"DBDrop"}) = {}
         /\ Len(r.calls) = 1
         /\ live[r.cluster] = r.live0
         /\ \A k \in DOMAIN r.out : r.out[k].kind = "prompt"
         /\ Cardinality(Prompts(r)) = Len(r.answers) + 1
         /\ ~Confirmed(r) /\ ~Declined(r)

C20_Witness ==
  \E p \in Procs :
    LET r == run[p]
    IN /\ Drops(r) /\ r.stdinErr /\ Ended(r)
       /\ Len(r.answers) = 2
       /\ live[r.cluster].pk # [t \in TableNames |-> Absent]

====
